---- MODULE Spec2Model ----
(***************************************************************************)
(* Publish/subscribe layer of lib/Protocol/Publish.py: the Server's        *)
(* publication sequencer and framing (pub_id_next, publish) and the        *)
(* Client's receive loop, callback registry and dispatch (run, propagate,  *)
(* register, subscribe), with the module's factory client() and its exit   *)
(* hook shutdown().                                                        *)
(*                                                                         *)
(* Byte strings are sequences of one-character strings.  Python's dict is  *)
(* a function whose DOMAIN is the set of keys; a Python list held in the   *)
(* registry is an object on a heap (lists), named by its index, so that    *)
(* two names of the same list alias as they do in Python.                  *)
(***************************************************************************)
EXTENDS Integers, Sequences, FiniteSets, TLC

(***************************************************************************)
(* Bounds of the model.                                                    *)
(***************************************************************************)
\* Server.pub_id_max is 0xFFFFFFFF in the source (line 208); the model scales
\* it down so that the wraparound is reached.
pub_id_max == 3
\* Publisher threads.
NThreads == 2
\* Direct calls of pub_id_next, over all threads.
MaxCalls == 12
\* Calls of publish, over all threads.
MaxPublish == 2
\* Calls of register.
MaxRegister == 2
\* Calls of register where the Server publishes.
MaxPubRegister == 1
\* Frames the environment puts on the subscriber's socket.
MaxInject == 1
\* Frames waiting on the subscriber's socket when another is sent.
MaxWire == 1
\* Calls of client().
MaxClient == 3

\* Server.pub_id_min
pub_id_min == 0
\* default_port
default_port == 10133

(***************************************************************************)
(* Byte strings.                                                           *)
(***************************************************************************)
\* The whitespace bytes.split() splits on (the model has two of them).
IsSpace(c) == c \in {" ", "\t"}

\* A byte that is not the start of any UTF-8 sequence.
BadByte == "xFF"

\* s[i..j], empty when j < i.
Slice(s, i, j) == IF j < i THEN <<>> ELSE SubSeq(s, i, j)

\* The first index at or after i that holds no whitespace, Len(s)+1 if none.
SkipSpace(s, i) ==
    CHOOSE j \in i..(Len(s) + 1) :
        /\ (j = Len(s) + 1 \/ ~IsSpace(s[j]))
        /\ \A k \in i..(j - 1) : IsSpace(s[k])

\* The first index at or after i that holds whitespace, Len(s)+1 if none.
SkipToken(s, i) ==
    CHOOSE j \in i..(Len(s) + 1) :
        /\ (j = Len(s) + 1 \/ IsSpace(s[j]))
        /\ \A k \in i..(j - 1) : ~IsSpace(s[k])

\* bytes.split(maxsplit=1): leading whitespace is skipped, the first token
\* is cut at the first run of whitespace, and what follows that run is kept
\* whole (trailing whitespace included).  The result has 0, 1 or 2 parts.
Split(s) ==
    LET i0 == SkipSpace(s, 1)
        i1 == SkipToken(s, i0)
        i2 == SkipSpace(s, i1)
    IN  IF i0 > Len(s) THEN <<>>
        ELSE IF i2 > Len(s) THEN << Slice(s, i0, i1 - 1) >>
        ELSE << Slice(s, i0, i1 - 1), Slice(s, i2, Len(s)) >>

\* str.strip()
Strip(s) ==
    LET i0 == SkipSpace(s, 1)
        last == IF i0 > Len(s) THEN 0
                ELSE CHOOSE j \in i0..Len(s) :
                        /\ ~IsSpace(s[j])
                        /\ \A k \in (j + 1)..Len(s) : IsSpace(s[k])
    IN  Slice(s, i0, last)

\* topic[-4:] == b'bulk'
BulkSuffix == <<"b", "u", "l", "k">>
EndsInBulk_Never(topic) == FALSE
EndsInBulk(topic) ==
    /\ Len(topic) >= 4
    /\ SubSeq(topic, Len(topic) - 3, Len(topic)) = BulkSuffix

\* str(n) of a non-negative integer.
Digits == <<"0", "1", "2", "3", "4", "5", "6", "7", "8", "9">>
RECURSIVE Str(_)
Str(n) == IF n < 10 THEN << Digits[n + 1] >>
          ELSE Str(n \div 10) \o << Digits[(n % 10) + 1] >>

\* bytes.decode(): fails on a byte that is not UTF-8.
Decodable(s) == \A i \in 1..Len(s) : s[i] # BadByte

(***************************************************************************)
(* Events and the structured-data codec (lib/Protocol/Json.py).            *)
(***************************************************************************)
EventNames == { <<"t">>, <<"T">>, <<"t", "b", "u", "l", "k">> }
Values == {7}
FieldNames == <<"name", "value", "id", "bulk">>

\* A mapping with the keys K.
Mapping(K, n, v, i, b) ==
    [k \in K |-> CASE k = "name" -> n
                   [] k = "value" -> v
                   [] k = "id" -> i
                   [] k = "bulk" -> b]

\* The events a caller hands to publish: with and without a name field.
PublishNames == { <<"t">>, <<"t", "b", "u", "l", "k">> }
Events == { Mapping(K, n, v, 0, FALSE) :
              K \in {{"name", "value"}, {"value"}}, n \in PublishNames, v \in Values }

\* The mappings the codec is exercised on.
JsonDomain == { Mapping(K, n, v, i, b) :
                  K \in SUBSET {"name", "value", "id", "bulk"},
                  n \in EventNames, v \in Values,
                  i \in pub_id_min..(pub_id_max + 1), b \in {TRUE} }

KeyChars(k) == CASE k = "name" -> <<"n", "a", "m", "e">>
                 [] k = "value" -> <<"v", "a", "l", "u", "e">>
                 [] k = "id" -> <<"i", "d">>
                 [] k = "bulk" -> <<"b", "u", "l", "k">>

JsonValue(k, v) == CASE k = "name" -> <<"\"">> \o v \o <<"\"">>
                     [] k \in {"value", "id"} -> Str(v)
                     [] k = "bulk" -> IF v THEN <<"t", "r", "u", "e">>
                                           ELSE <<"f", "a", "l", "s", "e">>

JsonField(m, k) ==
    <<"\"">> \o KeyChars(k) \o <<"\"", ":", " ">> \o JsonValue(k, m[k])

RECURSIVE JsonFields(_, _, _)
JsonFields(m, i, first) ==
    IF i > Len(FieldNames) THEN <<>>
    ELSE IF FieldNames[i] \in DOMAIN m
         THEN (IF first THEN <<>> ELSE <<",", " ">>)
              \o JsonField(m, FieldNames[i]) \o JsonFields(m, i + 1, FALSE)
         ELSE JsonFields(m, i + 1, first)

\* Json.dumps: the text of a mapping, its fields separated by ", " and each
\* key from its value by ": ".
JsonDumps(m) == <<"{">> \o JsonFields(m, 1, TRUE) \o <<"}">>

\* The texts Json.dumps produces, each with its mapping.
JsonTexts == { <<JsonDumps(m), m>> : m \in JsonDomain }

\* Json.loads: the mapping whose text s is; DecodeError on any other text.
JsonValid(s) == \E p \in JsonTexts : p[1] = s
JsonLoads(s) == (CHOOSE p \in JsonTexts : p[1] = s)[2]

(***************************************************************************)
(* State.                                                                  *)
(***************************************************************************)
VARIABLES
    \* Server
    counter,            \* the value next(self.pub_id) yields next
    lock,               \* pub_id_lock: the thread holding it, 0 when free
    spc,                \* each publisher thread's position
    sid,                \* each thread's local pub_id
    scall,              \* each thread's call: operation, event mapping, bulk
    issued,             \* the ids pub_id_next handed out, in lock order
    ncalls,             \* direct calls of pub_id_next so far
    npub,               \* calls of publish so far
    sent,               \* the frames handed to socket.send, in order, by the
                        \* publish calls in progress or returned last
    \* transport
    wire,               \* frames queued on the subscriber's socket
    subscriptions,      \* the prefixes set with zmq.SUBSCRIBE
    ninject,            \* frames put on the socket by other publishers
    \* Client
    callback_all,       \* the list of references for all topics
    callback_specific,  \* topic -> list (an index of lists)
    lists,              \* the heap of topic lists: index -> list of references
    alive,              \* the callbacks not yet garbage collected
    shutdown,           \* self.shutdown
    lpc,                \* the position of the thread running run()
    message,            \* the frame received and being handled
    topic,              \* propagate's topic
    payload,            \* propagate's message after decoding
    references,         \* propagate's references: "all" or an index of lists
    idx,                \* the for loop's iterator position in references
    invalid,            \* propagate's invalid
    calls,              \* the callbacks invoked for that frame so far
    alive_at_recv,      \* the callbacks alive when that frame was received
    recv_after_flag,    \* the frames received since self.shutdown was set
    \* the thread calling register
    rpc,                \* its position
    rarg,               \* register's arguments: callback and topic
    rlist,              \* register's callbacks: an index of lists
    nreg,               \* calls of register so far
    registered,         \* the registrations that returned: reference, topic
                        \* argument and the key it was filed under
    \* the module: the factory and the exit hook
    client_connections, \* (address, port) -> instance
    instances,          \* the Clients constructed: arguments and server string
    fpc,                \* each thread's position in client()
    fkey,               \* its (address, port)
    finst,              \* its local instance
    returned,           \* what the calls of client() returned: key, instance
    nclient,            \* calls of client() so far
    hooked              \* shutdown() has run

svars == <<counter, lock, spc, sid, scall, issued, ncalls, npub, sent>>
tvars == <<wire, subscriptions, ninject>>
cvars == <<callback_all, callback_specific, lists, alive, shutdown, lpc,
           message, topic, payload, references, idx, invalid, calls,
           alive_at_recv, recv_after_flag>>
rvars == <<rpc, rarg, rlist, nreg, registered>>
pvars == <<client_connections, instances, fpc, fkey, finst, returned, nclient,
           hooked>>
vars == <<svars, tvars, cvars, rvars, pvars>>

Threads == 1..NThreads
AllIdle == \A t \in Threads : spc[t] = "idle"

\* The bulk argument of publish: None, or a byte string.
NoBulk == [some |-> FALSE, bytes |-> <<>>]
SomeBulk(b) == [some |-> TRUE, bytes |-> b]
BulkPayloads == { <<" ", "x", " ">>, <<>> }
BulkArgs == {NoBulk} \cup { SomeBulk(b) : b \in BulkPayloads }

NoEvent == Mapping({}, <<>>, 0, 0, FALSE)
NoCall == [op |-> "none", ev |-> NoEvent, orig |-> NoEvent, bulk |-> NoBulk,
           result |-> "none", n |-> 0, prev |-> "none"]

(***************************************************************************)
(* The transport: socket.send on the PUB socket hands a frame to every     *)
(* subscriber one of whose subscribed prefixes starts the frame.           *)
(***************************************************************************)
IsPrefix(p, s) == Len(p) <= Len(s) /\ SubSeq(s, 1, Len(p)) = p
Matches(bytes, subs) == \E p \in subs : IsPrefix(p, bytes)

\* A frame with what it was made from (kind "normal", "bulk", or "raw" for a
\* frame of another publisher; n is the publish call).
Frame(bytes, kind, ev, id, bulk, n) ==
    [bytes |-> bytes, kind |-> kind, ev |-> ev, id |-> id, bulk |-> bulk, n |-> n]

Delivered(w, f, subs) == IF Matches(f.bytes, subs) THEN Append(w, f) ELSE w

(***************************************************************************)
(* Server                                                                  *)
(***************************************************************************)
\* pub_id_reset
pub_id_reset == pub_id_min

LockFree_NoLock == TRUE

\* pub_id_lock.acquire() succeeds
LockFree == lock = 0

CounterAfterCheck_NoReset(pub_id, c) == c

CounterAfterCheck_LateReset(pub_id, c) ==
    IF pub_id > pub_id_max THEN pub_id_reset + 1 ELSE c

\* The id pub_id_next returns for the drawn pub_id (lines 232-238).
IdAfterCheck(pub_id) == IF pub_id > pub_id_max THEN pub_id_min ELSE pub_id

\* The counter after the drawn pub_id was checked, c being the counter after
\* the draw (lines 232-238).
CounterAfterCheck(pub_id, c) ==
    IF pub_id >= pub_id_max
    THEN IF pub_id > pub_id_max THEN pub_id_reset + 1 ELSE pub_id_reset
    ELSE c

\* A thread calls pub_id_next directly.
CallPubIdNext(t) ==
    /\ spc[t] = "idle"
    /\ ncalls < MaxCalls
    /\ ncalls' = ncalls + 1
    /\ scall' = [scall EXCEPT ![t] = [NoCall EXCEPT !.op = "pub_id_next"]]
    /\ spc' = [spc EXCEPT ![t] = "acquire"]
    /\ UNCHANGED <<counter, lock, sid, issued, npub, sent>>
    /\ UNCHANGED <<tvars, cvars, rvars>>
    /\ UNCHANGED pvars

\* A thread calls publish(ev, bulk): its first statement calls pub_id_next.
CallPublish(t, ev, bulk) ==
    /\ spc[t] = "idle"
    /\ npub < MaxPublish
    /\ Len(wire) < MaxWire
    /\ npub' = npub + 1
    /\ scall' = [scall EXCEPT ![t] = [op |-> "publish", ev |-> ev, orig |-> ev,
                                      bulk |-> bulk, result |-> "none",
                                      n |-> npub + 1,
                                      prev |-> scall[t].result]]
    /\ spc' = [spc EXCEPT ![t] = "acquire"]
    /\ sent' = IF AllIdle THEN <<>> ELSE sent
    /\ UNCHANGED <<counter, lock, sid, issued, ncalls>>
    /\ UNCHANGED <<tvars, cvars, rvars>>
    /\ UNCHANGED pvars

\* self.pub_id_lock.acquire()
Acquire(t) ==
    /\ spc[t] = "acquire"
    /\ LockFree
    /\ lock' = t
    /\ spc' = [spc EXCEPT ![t] = "draw"]
    /\ UNCHANGED <<counter, sid, scall, issued, ncalls, npub, sent>>
    /\ UNCHANGED <<tvars, cvars, rvars>>
    /\ UNCHANGED pvars

\* pub_id = next(self.pub_id)
Draw(t) ==
    /\ spc[t] = "draw"
    /\ sid' = [sid EXCEPT ![t] = counter]
    /\ counter' = counter + 1
    /\ spc' = [spc EXCEPT ![t] = "check"]
    /\ UNCHANGED <<lock, scall, issued, ncalls, npub, sent>>
    /\ UNCHANGED <<tvars, cvars, rvars>>
    /\ UNCHANGED pvars

\* if pub_id >= self.pub_id_max: ...
Check(t) ==
    /\ spc[t] = "check"
    /\ sid' = [sid EXCEPT ![t] = IdAfterCheck(sid[t])]
    /\ counter' = CounterAfterCheck(sid[t], counter)
    /\ spc' = [spc EXCEPT ![t] = "release"]
    /\ UNCHANGED <<lock, scall, issued, ncalls, npub, sent>>
    /\ UNCHANGED <<tvars, cvars, rvars>>
    /\ UNCHANGED pvars

\* self.pub_id_lock.release(); the id is the one the call returns.
Release(t) ==
    /\ spc[t] = "release"
    /\ lock' = 0
    /\ issued' = Append(issued, sid[t])
    /\ spc' = [spc EXCEPT ![t] = "return"]
    /\ UNCHANGED <<counter, sid, scall, ncalls, npub, sent>>
    /\ UNCHANGED <<tvars, cvars, rvars>>
    /\ UNCHANGED pvars

\* return pub_id, to the caller of a direct call.
ReturnId(t) ==
    /\ spc[t] = "return"
    /\ scall[t].op = "pub_id_next"
    /\ scall' = [scall EXCEPT ![t].result = "returned"]
    /\ spc' = [spc EXCEPT ![t] = "idle"]
    /\ UNCHANGED <<counter, lock, sid, issued, ncalls, npub, sent>>
    /\ UNCHANGED <<tvars, cvars, rvars>>
    /\ UNCHANGED pvars

\* message['id'] = pub_id; if bulk is not None: message['bulk'] = True
Stamped(ev, pub_id, bulk) ==
    [k \in DOMAIN ev \cup {"id"} \cup (IF bulk.some THEN {"bulk"} ELSE {}) |->
        CASE k = "id" -> pub_id
          [] k = "bulk" /\ bulk.some -> TRUE
          [] OTHER -> ev[k]]

\* topic + ' ' + Json.dumps(message)
EncodeNormal(name, m) == name \o <<" ">> \o JsonDumps(m)

EncodeBulk_NextId(name, pub_id, bytes) ==
    name \o <<";", "b", "u", "l", "k", " ">> \o Str(pub_id + 1) \o <<" ">> \o bytes

\* topic + ';bulk ' + str(pub_id) + ' ', encoded, + bulk
EncodeBulk(name, pub_id, bytes) ==
    name \o <<";", "b", "u", "l", "k", " ">> \o Str(pub_id) \o <<" ">> \o bytes

EventAtKeyError_Stamped(ev, pub_id) == Stamped(ev, pub_id, NoBulk)

\* The caller's mapping when message['name'] at line 262 raises: lines 264-266
\* have not run.
EventAtKeyError(ev, pub_id) == ev

\* publish, lines 262-269: KeyError when the event has no name; otherwise the
\* event is stamped and the normal frame is sent.
PublishNormal(t) ==
    /\ spc[t] = "return"
    /\ scall[t].op = "publish"
    /\ IF "name" \notin DOMAIN scall[t].ev
       THEN /\ scall' = [scall EXCEPT ![t].result = "KeyError",
                                     ![t].ev = EventAtKeyError(@, sid[t])]
            /\ spc' = [spc EXCEPT ![t] = "idle"]
            /\ UNCHANGED <<sent, wire>>
       ELSE LET m == Stamped(scall[t].ev, sid[t], scall[t].bulk)
                f == Frame(EncodeNormal(m["name"], m), "normal", scall[t].orig,
                           sid[t], scall[t].bulk, scall[t].n)
            IN  /\ scall' = [scall EXCEPT ![t].ev = m,
                                          ![t].result =
                                             IF scall[t].bulk.some THEN "none"
                                             ELSE "returned"]
                /\ sent' = Append(sent, f)
                /\ wire' = Delivered(wire, f, subscriptions)
                /\ spc' = [spc EXCEPT ![t] = IF scall[t].bulk.some
                                             THEN "send_bulk" ELSE "idle"]
    /\ UNCHANGED <<counter, lock, sid, issued, ncalls, npub>>
    /\ UNCHANGED <<subscriptions, ninject, cvars, rvars>>
    /\ UNCHANGED pvars

\* publish, lines 271-276: the bulk frame.
PublishBulk(t) ==
    /\ spc[t] = "send_bulk"
    /\ LET f == Frame(EncodeBulk(scall[t].ev["name"], sid[t], scall[t].bulk.bytes),
                      "bulk", scall[t].orig, sid[t], scall[t].bulk, scall[t].n)
       IN  /\ sent' = Append(sent, f)
           /\ wire' = Delivered(wire, f, subscriptions)
    /\ scall' = [scall EXCEPT ![t].result = "returned"]
    /\ spc' = [spc EXCEPT ![t] = "idle"]
    /\ UNCHANGED <<counter, lock, sid, issued, ncalls, npub>>
    /\ UNCHANGED <<subscriptions, ninject, cvars, rvars>>
    /\ UNCHANGED pvars

(***************************************************************************)
(* Client: the registry                                                    *)
(***************************************************************************)
\* The objects handed to register: two callables and one that is not.
Callbacks == {"f", "g"}
Objects == Callbacks \cup {"notcallable"}

\* register's topic argument: None, or a string.
NoTopic == [some |-> FALSE, str |-> <<>>]
SomeTopic(s) == [some |-> TRUE, str |-> s]
TopicArgs == {NoTopic} \cup
             { SomeTopic(s) : s \in { <<" ", "t", "\t">>, <<"T">> } }
\* The topics registered where the Server publishes: an event's and its
\* bulk companion's.
PubTopicArgs == {NoTopic} \cup
                { SomeTopic(s) : s \in { <<"t">>,
                                         <<"t", ";", "b", "u", "l", "k">> } }

\* topic = str(topic); topic = topic.strip(); topic = topic.encode()
Normalise(s) == Strip(s)

\* A weak reference: each call of register makes its own.
Ref(k, cb) == [id |-> k, cb |-> cb]

NoArg == [cb |-> "none", topic |-> NoTopic, key |-> <<>>, ref |-> Ref(0, "none"),
          result |-> "none"]

\* list.remove(x): the list without its first entry equal to x.
Remove(l, x) ==
    IF \E i \in 1..Len(l) : l[i] = x
    THEN LET i == CHOOSE j \in 1..Len(l) : l[j] = x /\ \A k \in 1..(j - 1) : l[k] # x
         IN  Slice(l, 1, i - 1) \o Slice(l, i + 1, Len(l))
    ELSE l

RemoveEach_Keeps(l, inv) == l

\* for reference in invalid: references.remove(reference)
RECURSIVE RemoveEach(_, _)
RemoveEach(l, inv) ==
    IF inv = <<>> THEN l ELSE RemoveEach(Remove(l, Head(inv)), Tail(inv))

ListAppend_Front(l, x) == <<x>> \o l

\* list.append(x)
ListAppend(l, x) == Append(l, x)

IsCallable_Anything(cb) == TRUE

\* callable(callback)
IsCallable(cb) == cb \in Callbacks

\* register(callback, topic), lines 139-144: TypeError for an object that is
\* not callable; otherwise the weak reference is made.  The caller holds the
\* object it hands over.
CallRegister(cb, t) ==
    /\ rpc = "idle"
    /\ nreg < MaxRegister
    /\ nreg' = nreg + 1
    /\ IF ~IsCallable(cb)
       THEN /\ rarg' = [NoArg EXCEPT !.cb = cb, !.topic = t, !.result = "TypeError"]
            /\ rpc' = "idle"
       ELSE /\ cb \in Callbacks => cb \in alive
            /\ rarg' = [cb |-> cb, topic |-> t,
                        key |-> IF t.some THEN Normalise(t.str) ELSE <<>>,
                        ref |-> Ref(nreg + 1, cb), result |-> "none"]
            /\ rpc' = IF t.some THEN "lookup" ELSE "append_all"
    /\ UNCHANGED <<rlist, registered>>
    /\ UNCHANGED <<svars, tvars, cvars>>
    /\ UNCHANGED pvars

\* self.callback_all.append(reference)
RegisterAppendAll ==
    /\ rpc = "append_all"
    /\ callback_all' = ListAppend(callback_all, rarg.ref)
    /\ rpc' = "subscribe"
    /\ UNCHANGED <<callback_specific, lists, alive, shutdown, lpc, message, topic,
                   payload, references, idx, invalid, calls,
                   alive_at_recv, recv_after_flag>>
    /\ UNCHANGED <<rarg, rlist, nreg, registered>>
    /\ UNCHANGED <<svars, tvars>>
    /\ UNCHANGED pvars

\* try: callbacks = self.callback_specific[topic]
\* except: callbacks = list()
RegisterLookup ==
    /\ rpc = "lookup"
    /\ IF rarg.key \in DOMAIN callback_specific
       THEN /\ rlist' = callback_specific[rarg.key]
            /\ rpc' = "append"
            /\ UNCHANGED lists
       ELSE /\ lists' = Append(lists, <<>>)
            /\ rlist' = Len(lists) + 1
            /\ rpc' = "insert"
    /\ UNCHANGED <<callback_all, callback_specific, alive, shutdown, lpc, message,
                   topic, payload, references, idx, invalid, calls,
                   alive_at_recv, recv_after_flag>>
    /\ UNCHANGED <<rarg, nreg, registered>>
    /\ UNCHANGED <<svars, tvars>>
    /\ UNCHANGED pvars

\* self.callback_specific[topic] = callbacks
RegisterInsert ==
    /\ rpc = "insert"
    /\ callback_specific' =
          [k \in DOMAIN callback_specific \cup {rarg.key} |->
              IF k = rarg.key THEN rlist ELSE callback_specific[k]]
    /\ rpc' = "append"
    /\ UNCHANGED <<callback_all, lists, alive, shutdown, lpc, message, topic,
                   payload, references, idx, invalid, calls,
                   alive_at_recv, recv_after_flag>>
    /\ UNCHANGED <<rarg, rlist, nreg, registered>>
    /\ UNCHANGED <<svars, tvars>>
    /\ UNCHANGED pvars

\* callbacks.append(reference)
RegisterAppend ==
    /\ rpc = "append"
    /\ lists' = [lists EXCEPT ![rlist] = ListAppend(@, rarg.ref)]
    /\ rpc' = "subscribe"
    /\ UNCHANGED <<callback_all, callback_specific, alive, shutdown, lpc, message,
                   topic, payload, references, idx, invalid, calls,
                   alive_at_recv, recv_after_flag>>
    /\ UNCHANGED <<rarg, rlist, nreg, registered>>
    /\ UNCHANGED <<svars, tvars>>
    /\ UNCHANGED pvars

Subscribed_Replaces(subs, top) == {top}

\* self.socket.setsockopt(zmq.SUBSCRIBE, topic)
Subscribed(subs, top) == subs \cup {top}

\* self.subscribe('') or self.subscribe(topic), and register returns.
RegisterSubscribe ==
    /\ rpc = "subscribe"
    /\ subscriptions' = Subscribed(subscriptions, rarg.key)
    /\ registered' = registered \cup {[ref |-> rarg.ref, all |-> ~rarg.topic.some,
                                       key |-> rarg.key, arg |-> rarg.topic]}
    /\ rarg' = [rarg EXCEPT !.result = "returned"]
    /\ rpc' = "idle"
    /\ rlist' = 0
    /\ UNCHANGED <<wire, ninject, nreg>>
    /\ UNCHANGED <<svars, cvars>>
    /\ UNCHANGED pvars

(***************************************************************************)
(* Client: run and propagate, on the thread started by __init__            *)
(***************************************************************************)
NoPayload == [kind |-> "none", value |-> <<>>]
NoFrame == Frame(<<>>, "none", NoEvent, 0, NoBulk, 0)

\* topic, message = message.split(maxsplit=1) raises ValueError unless the
\* split yields two parts.
Unpackable(bytes) == Len(Split(bytes)) = 2

\* Lines 67-71: the body of a bulk frame is kept as it is, any other body is
\* decoded and parsed; both may raise.
BodyDecodable(top, body) ==
    EndsInBulk(top) \/ (Decodable(body) /\ JsonValid(body))

DecodedBody(top, body) ==
    IF EndsInBulk(top) THEN [kind |-> "raw", value |-> body]
    ELSE [kind |-> "parsed", value |-> JsonLoads(body)]

\* The list propagate walks: callback_all, or a topic's list.
Walked == IF references = 0 THEN callback_all ELSE lists[references]

WhileTest_Always(flag) == TRUE

\* self.shutdown == False
WhileTest(flag) == flag = FALSE

\* while self.shutdown == False
LoopShutdownCheck ==
    /\ lpc = "while"
    /\ lpc' = IF WhileTest(shutdown) THEN "poll" ELSE "stopped"
    /\ UNCHANGED <<callback_all, callback_specific, lists, alive, shutdown,
                   message, topic, payload, references, idx, invalid, calls,
                   alive_at_recv, recv_after_flag>>
    /\ UNCHANGED <<svars, tvars, rvars>>
    /\ UNCHANGED pvars

\* sockets = poller.poll(1000) returns empty: nothing arrived in a second.
PollTimeout ==
    /\ lpc = "poll"
    /\ wire = <<>>
    /\ lpc' = "while"
    /\ UNCHANGED <<callback_all, callback_specific, lists, alive, shutdown,
                   message, topic, payload, references, idx, invalid, calls,
                   alive_at_recv, recv_after_flag>>
    /\ UNCHANGED <<svars, tvars, rvars>>
    /\ UNCHANGED pvars

\* message = self.socket.recv()
Recv ==
    /\ lpc = "poll"
    /\ wire # <<>>
    /\ message' = Head(wire)
    /\ wire' = Tail(wire)
    /\ calls' = <<>>
    /\ alive_at_recv' = alive
    /\ recv_after_flag' = IF shutdown THEN recv_after_flag + 1 ELSE recv_after_flag
    /\ payload' = NoPayload
    /\ topic' = <<>>
    /\ lpc' = "propagate"
    /\ UNCHANGED <<callback_all, callback_specific, lists, alive, shutdown,
                   references, idx, invalid>>
    /\ UNCHANGED <<subscriptions, ninject>>
    /\ UNCHANGED <<svars, rvars>>
    /\ UNCHANGED pvars

\* propagate has returned and "for active,flag in sockets" has no further
\* socket: back to the while; the frame and what was made of it are dropped.
ForNext ==
    /\ lpc = "returned"
    /\ lpc' = "while"
    /\ message' = NoFrame
    /\ topic' = <<>>
    /\ payload' = NoPayload
    /\ calls' = <<>>
    /\ alive_at_recv' = Callbacks
    /\ UNCHANGED <<callback_all, callback_specific, lists, alive, shutdown,
                   references, idx, invalid, recv_after_flag>>
    /\ UNCHANGED <<svars, tvars, rvars>>
    /\ UNCHANGED pvars

\* What an exception raised in propagate does to the thread: run has no
\* handler, so the thread ends.
Raised == "crashed"

\* propagate, lines 56-76: return when nobody listens, else split and decode
\* the frame; an exception raised here leaves propagate and run.
PropagateDecode ==
    /\ lpc = "propagate"
    /\ IF callback_all = <<>> /\ DOMAIN callback_specific = {}
       THEN /\ lpc' = "returned"
            /\ UNCHANGED <<topic, payload, references, idx, invalid>>
       ELSE IF ~Unpackable(message.bytes)
       THEN /\ lpc' = Raised
            /\ UNCHANGED <<topic, payload, references, idx, invalid>>
       ELSE LET parts == Split(message.bytes)
            IN  IF ~BodyDecodable(parts[1], parts[2])
                THEN /\ lpc' = Raised
                     /\ topic' = parts[1]
                     /\ UNCHANGED <<payload, references, idx, invalid>>
                ELSE /\ topic' = parts[1]
                     /\ payload' = DecodedBody(parts[1], parts[2])
                     /\ references' = 0
                     /\ idx' = 1
                     /\ invalid' = <<>>
                     /\ lpc' = "walk_all"
    /\ UNCHANGED <<callback_all, callback_specific, lists, alive, shutdown,
                   message, calls,
                   alive_at_recv, recv_after_flag>>
    /\ UNCHANGED <<svars, tvars, rvars>>
    /\ UNCHANGED pvars

AfterCallbackRaised_Propagates(pc) == "crashed"

\* What a raising callback does to the walk: the handler prints the traceback
\* and the loop goes on with the next reference.
AfterCallbackRaised(pc) == pc

\* One turn of "for reference in references" (lines 78-88 and 110-120): a
\* dead reference is noted in invalid, and calling None raises TypeError,
\* which the handler catches; a live callback is called and returns or raises.
Walk(pc, list) ==
    /\ lpc = pc
    /\ idx <= Len(Walked)
    /\ LET reference == Walked[idx]
       IN  IF reference.cb \notin alive
           THEN /\ invalid' = Append(invalid, reference)
                /\ lpc' = AfterCallbackRaised(pc)
                /\ UNCHANGED calls
           ELSE \E raises \in BOOLEAN :
                   /\ calls' = Append(calls, [ref |-> reference, list |-> list,
                                              raised |-> raises, arg |-> payload])
                   /\ lpc' = IF raises THEN AfterCallbackRaised(pc) ELSE pc
                   /\ UNCHANGED invalid
    /\ idx' = idx + 1
    /\ UNCHANGED <<callback_all, callback_specific, lists, alive, shutdown,
                   message, topic, payload, references, alive_at_recv, recv_after_flag>>
    /\ UNCHANGED <<svars, tvars, rvars>>
    /\ UNCHANGED pvars

WalkAll == Walk("walk_all", "all")
WalkSpecific == Walk("walk_specific", "specific")

\* Lines 90-91, after the walk of callback_all.
PruneAll ==
    /\ lpc = "walk_all"
    /\ idx > Len(Walked)
    /\ callback_all' = RemoveEach(callback_all, invalid)
    /\ lpc' = "lookup"
    /\ UNCHANGED <<callback_specific, lists, alive, shutdown, message, topic,
                   payload, references, idx, invalid, calls,
                   alive_at_recv, recv_after_flag>>
    /\ UNCHANGED <<svars, tvars, rvars>>
    /\ UNCHANGED pvars

TopicLists_AnyTopic(top) ==
    { callback_specific[k] : k \in DOMAIN callback_specific }

\* self.callback_specific[topic]: the list under that very key; none is
\* KeyError.
TopicLists(top) ==
    { callback_specific[k] : k \in DOMAIN callback_specific \cap {top} }

\* Lines 98-108: return when there is no topic list for this topic.
LookupSpecific ==
    /\ lpc = "lookup"
    /\ IF TopicLists(topic) # {}
       THEN /\ references' = CHOOSE l \in TopicLists(topic) : TRUE
            /\ idx' = 1
            /\ invalid' = <<>>
            /\ lpc' = "walk_specific"
       ELSE /\ lpc' = "returned"
            /\ references' = 0
            /\ idx' = 1
            /\ invalid' = <<>>
    /\ UNCHANGED <<callback_all, callback_specific, lists, alive, shutdown,
                   message, topic, payload, calls,
                   alive_at_recv, recv_after_flag>>
    /\ UNCHANGED <<svars, tvars, rvars>>
    /\ UNCHANGED pvars

\* Lines 122-123, after the walk of the topic's list.
PruneSpecific ==
    /\ lpc = "walk_specific"
    /\ idx > Len(Walked)
    /\ lists' = [lists EXCEPT ![references] = RemoveEach(@, invalid)]
    /\ lpc' = "len"
    /\ UNCHANGED <<callback_all, callback_specific, alive, shutdown, message,
                   topic, payload, references, idx, invalid, calls,
                   alive_at_recv, recv_after_flag>>
    /\ UNCHANGED <<svars, tvars, rvars>>
    /\ UNCHANGED pvars

ListEmpty_Never(l) == FALSE

\* if len(references) == 0
ListEmpty(l) == Len(l) = 0

LenCheck ==
    /\ lpc = "len"
    /\ IF ListEmpty(lists[references])
       THEN /\ lpc' = "del"
            /\ UNCHANGED <<references, idx, invalid>>
       ELSE /\ lpc' = "returned"
            /\ references' = 0
            /\ idx' = 1
            /\ invalid' = <<>>
    /\ UNCHANGED <<callback_all, callback_specific, lists, alive, shutdown,
                   message, topic, payload, calls,
                   alive_at_recv, recv_after_flag>>
    /\ UNCHANGED <<svars, tvars, rvars>>
    /\ UNCHANGED pvars

\* del self.callback_specific[topic]
DeleteTopic ==
    /\ lpc = "del"
    /\ callback_specific' = [k \in DOMAIN callback_specific \ {topic} |->
                                callback_specific[k]]
    /\ lpc' = "returned"
    /\ references' = 0
    /\ idx' = 1
    /\ invalid' = <<>>
    /\ UNCHANGED <<callback_all, lists, alive, shutdown, message, topic,
                   payload, calls,
                   alive_at_recv, recv_after_flag>>
    /\ UNCHANGED <<svars, tvars, rvars>>
    /\ UNCHANGED pvars

(***************************************************************************)
(* The environment                                                         *)
(***************************************************************************)
\* The last strong reference to a registered callback is dropped.  register's caller
\* holds one for the length of the call.
Collect(cb) ==
    /\ cb \in alive
    /\ \E r \in registered : r.ref.cb = cb
    /\ ~(rpc # "idle" /\ rarg.cb = cb)
    /\ alive' = alive \ {cb}
    /\ UNCHANGED <<callback_all, callback_specific, lists, shutdown, lpc, message,
                   topic, payload, references, idx, invalid, calls,
                   alive_at_recv, recv_after_flag>>
    /\ UNCHANGED <<svars, tvars, rvars>>
    /\ UNCHANGED pvars

\* The application sets the shutdown attribute.
SetShutdown ==
    /\ ~shutdown
    /\ shutdown' = TRUE
    /\ UNCHANGED <<callback_all, callback_specific, lists, alive, lpc, message,
                   topic, payload, references, idx, invalid, calls,
                   alive_at_recv, recv_after_flag>>
    /\ UNCHANGED <<svars, tvars, rvars>>
    /\ UNCHANGED pvars

\* Frames of other publishers on the same endpoint: one without a separator,
\* one whose body is neither UTF-8 nor structured data, and well-formed ones.
WellFormed(n, id) == EncodeNormal(n, Mapping({"name", "value", "id"}, n, 7, id, FALSE))
RawFrames ==
    { <<"t">>,
      <<"t", " ", "{", BadByte>>,
      WellFormed(<<"t">>, 0),
      <<" ">> \o WellFormed(<<"T">>, 1) }

Inject(bytes) ==
    /\ ninject < MaxInject
    /\ Len(wire) < MaxWire
    /\ ninject' = ninject + 1
    /\ wire' = Delivered(wire, Frame(bytes, "raw", NoEvent, 0, NoBulk, 0),
                         subscriptions)
    /\ UNCHANGED subscriptions
    /\ UNCHANGED <<svars, cvars, rvars>>
    /\ UNCHANGED pvars

(***************************************************************************)
(* The module: the factory client() and the exit hook shutdown()           *)
(***************************************************************************)
\* An argument left at None, or given.
NoAddress == [some |-> FALSE, str |-> ""]
SomeAddress(a) == [some |-> TRUE, str |-> a]
NoPort == [some |-> FALSE, n |-> 0]
SomePort(n) == [some |-> TRUE, n |-> n]

\* The (address, port) pairs client() is called with.
Keys == { [address |-> NoAddress, port |-> NoPort],
          [address |-> SomeAddress("localhost"), port |-> SomePort(default_port)],
          [address |-> SomeAddress("h"), port |-> NoPort] }
NoKey == [address |-> NoAddress, port |-> NoPort]

\* Client.__init__, lines 28-35: the server the socket connects to.
ServerOf(key) ==
    [address |-> IF key.address.some THEN key.address.str ELSE "localhost",
     port |-> IF key.port.some THEN key.port.n ELSE default_port]

FactoriesIdle == \A t \in Threads : fpc[t] = "idle"

\* A thread calls client(address, port); none does once shutdown() has run.
CallClient(t, key) ==
    /\ fpc[t] = "idle"
    /\ ~hooked
    /\ nclient < MaxClient
    /\ nclient' = nclient + 1
    /\ fkey' = [fkey EXCEPT ![t] = key]
    /\ fpc' = [fpc EXCEPT ![t] = "lookup"]
    /\ UNCHANGED <<client_connections, instances, finst, returned, hooked>>
    /\ UNCHANGED <<svars, tvars, cvars, rvars>>

\* try: instance = client_connections[(address, port)]
ClientLookup(t) ==
    /\ fpc[t] = "lookup"
    /\ IF fkey[t] \in DOMAIN client_connections
       THEN /\ finst' = [finst EXCEPT ![t] = client_connections[fkey[t]]]
            /\ fpc' = [fpc EXCEPT ![t] = "return"]
       ELSE /\ fpc' = [fpc EXCEPT ![t] = "construct"]
            /\ UNCHANGED finst
    /\ UNCHANGED <<client_connections, instances, fkey, returned, nclient, hooked>>
    /\ UNCHANGED <<svars, tvars, cvars, rvars>>

\* except KeyError: instance = Client(address, port)
ClientConstruct(t) ==
    /\ fpc[t] = "construct"
    /\ instances' = Append(instances, [key |-> fkey[t], server |-> ServerOf(fkey[t])])
    /\ finst' = [finst EXCEPT ![t] = Len(instances) + 1]
    /\ fpc' = [fpc EXCEPT ![t] = "store"]
    /\ UNCHANGED <<client_connections, fkey, returned, nclient, hooked>>
    /\ UNCHANGED <<svars, tvars, cvars, rvars>>

\* client_connections[(address, port)] = instance
ClientStore(t) ==
    /\ fpc[t] = "store"
    /\ client_connections' =
          [k \in DOMAIN client_connections \cup {fkey[t]} |->
              IF k = fkey[t] THEN finst[t] ELSE client_connections[k]]
    /\ fpc' = [fpc EXCEPT ![t] = "return"]
    /\ UNCHANGED <<instances, fkey, finst, returned, nclient, hooked>>
    /\ UNCHANGED <<svars, tvars, cvars, rvars>>

\* return instance
ClientReturn(t) ==
    /\ fpc[t] = "return"
    /\ returned' = returned \cup {[key |-> fkey[t], instance |-> finst[t]]}
    /\ fpc' = [fpc EXCEPT ![t] = "idle"]
    /\ UNCHANGED <<client_connections, instances, fkey, finst, nclient, hooked>>
    /\ UNCHANGED <<svars, tvars, cvars, rvars>>

\* shutdown(), registered with atexit: it runs once, with the daemon threads
\* of the Clients running.
ShutdownHook ==
    /\ ~hooked
    /\ FactoriesIdle
    /\ hooked' = TRUE
    /\ client_connections' = [k \in {} |-> 0]
    /\ UNCHANGED <<instances, fpc, fkey, finst, returned, nclient>>
    /\ UNCHANGED <<svars, tvars, cvars, rvars>>

(***************************************************************************)
(* Initial state: Server.__init__ and Client.__init__ have run.            *)
(***************************************************************************)
Init ==
    /\ counter = pub_id_reset
    /\ lock = 0
    /\ spc = [t \in Threads |-> "idle"]
    /\ sid = [t \in Threads |-> 0]
    /\ scall = [t \in Threads |-> NoCall]
    /\ issued = <<>>
    /\ ncalls = 0
    /\ npub = 0
    /\ sent = <<>>
    /\ wire = <<>>
    /\ subscriptions = {}
    /\ ninject = 0
    /\ callback_all = <<>>
    /\ callback_specific = [k \in {} |-> 0]
    /\ lists = <<>>
    /\ alive = Callbacks
    /\ shutdown = FALSE
    /\ lpc = "while"
    /\ message = NoFrame
    /\ topic = <<>>
    /\ payload = NoPayload
    /\ references = 0
    /\ idx = 1
    /\ invalid = <<>>
    /\ calls = <<>>
    /\ alive_at_recv = Callbacks
    /\ recv_after_flag = 0
    /\ rpc = "idle"
    /\ rarg = NoArg
    /\ rlist = 0
    /\ nreg = 0
    /\ registered = {}
    /\ client_connections = [k \in {} |-> 0]
    /\ instances = <<>>
    /\ fpc = [t \in Threads |-> "idle"]
    /\ fkey = [t \in Threads |-> NoKey]
    /\ finst = [t \in Threads |-> 0]
    /\ returned = {}
    /\ nclient = 0
    /\ hooked = FALSE

(***************************************************************************)
(* Specifications                                                          *)
(***************************************************************************)
\* The callbacks are interchangeable: the one registered first is called f.
InOrder(cb) == cb = "g" => \E r \in registered : r.ref.cb = "f"

LoopBetweenFrames == lpc \in {"while", "poll", "stopped", "crashed"}

SequencerSteps(t) == Acquire(t) \/ Draw(t) \/ Check(t) \/ Release(t)
PublishSteps(t) == SequencerSteps(t) \/ PublishNormal(t) \/ PublishBulk(t)
DirectSteps(t) == SequencerSteps(t) \/ ReturnId(t)
RegisterSteps ==
    RegisterAppendAll \/ RegisterLookup \/ RegisterInsert \/ RegisterAppend
    \/ RegisterSubscribe
LoopSteps ==
    LoopShutdownCheck \/ PollTimeout \/ Recv \/ PropagateDecode \/ WalkAll
    \/ PruneAll \/ LookupSpecific \/ WalkSpecific \/ PruneSpecific \/ LenCheck
    \/ DeleteTopic \/ ForNext

\* The Client alone: frames arrive from the transport, and register and
\* propagate run one at a time (the caller of register and the loop thread do
\* not overlap).  Nothing sets self.shutdown here; SpecDown does.
Next ==
    \/ \E cb \in Objects, ta \in TopicArgs :
          LoopBetweenFrames /\ InOrder(cb) /\ CallRegister(cb, ta)
    \/ RegisterSteps
    \/ (rpc = "idle" /\ LoopShutdownCheck)
    \/ (rpc = "idle" /\ PollTimeout)
    \/ (rpc = "idle" /\ Recv)
    \/ (rpc = "idle" /\ PropagateDecode)
    \/ (rpc = "idle" /\ WalkAll)
    \/ (rpc = "idle" /\ PruneAll)
    \/ (rpc = "idle" /\ LookupSpecific)
    \/ (rpc = "idle" /\ WalkSpecific)
    \/ (rpc = "idle" /\ PruneSpecific)
    \/ (rpc = "idle" /\ LenCheck)
    \/ (rpc = "idle" /\ DeleteTopic)
    \/ (rpc = "idle" /\ ForNext)
    \/ \E cb \in Callbacks : Collect(cb)
    \/ \E bytes \in RawFrames : Inject(bytes)

Spec == Init /\ [][Next]_vars

\* Server and Client, one operation at a time: one thread publishes, and
\* publish, register, the handling of a frame and the collection of a callback
\* do not overlap.
Publisher == CHOOSE t \in Threads : \A u \in Threads : t <= u
OthersIdle == rpc = "idle" /\ AllIdle
PubNext ==
    \/ \E ev \in Events, bulk \in BulkArgs :
          rpc = "idle" /\ LoopBetweenFrames /\ CallPublish(Publisher, ev, bulk)
    \/ PublishSteps(Publisher)
    \/ \E cb \in Callbacks, ta \in PubTopicArgs :
          /\ AllIdle /\ LoopBetweenFrames
          /\ nreg < MaxPubRegister /\ InOrder(cb)
          /\ CallRegister(cb, ta)
    \/ RegisterSteps
    \/ (OthersIdle /\ LoopShutdownCheck)
    \/ (OthersIdle /\ PollTimeout)
    \/ (OthersIdle /\ Recv)
    \/ (OthersIdle /\ PropagateDecode)
    \/ (OthersIdle /\ WalkAll)
    \/ (OthersIdle /\ PruneAll)
    \/ (OthersIdle /\ LookupSpecific)
    \/ (OthersIdle /\ WalkSpecific)
    \/ (OthersIdle /\ PruneSpecific)
    \/ (OthersIdle /\ LenCheck)
    \/ (OthersIdle /\ DeleteTopic)
    \/ (OthersIdle /\ ForNext)
    \/ \E cb \in Callbacks : AllIdle /\ LoopBetweenFrames /\ Collect(cb)

SpecPub == Init /\ [][PubNext]_vars

\* pub_id_next called directly, one call after another.
SeqNext ==
    \/ \E t \in Threads : AllIdle /\ CallPubIdNext(t)
    \/ \E t \in Threads : DirectSteps(t)

SpecSeq == Init /\ [][SeqNext]_vars

\* pub_id_next called directly by concurrent threads.
ConcNext ==
    \/ \E t \in Threads : CallPubIdNext(t)
    \/ \E t \in Threads : DirectSteps(t)

SpecConc == Init /\ [][ConcNext]_vars

\* The scheduler lets every thread run, and a thread waiting for the lock
\* gets it if the lock is free again and again.
FairConc ==
    /\ SpecConc
    /\ \A t \in Threads : WF_vars(DirectSteps(t)) /\ SF_vars(Acquire(t))

\* register on a caller's thread while the loop thread dispatches frames of
\* one topic.
RaceTopicArgs == {NoTopic, SomeTopic(<<"t">>)}
RaceFrames == {WellFormed(<<"t">>, 0)}
RaceNext ==
    \/ \E cb \in Callbacks, ta \in RaceTopicArgs : CallRegister(cb, ta)
    \/ RegisterSteps
    \/ LoopSteps
    \/ \E cb \in Callbacks : Collect(cb)
    \/ \E bytes \in RaceFrames : Inject(bytes)

SpecRace == Init /\ [][RaceNext]_vars

\* The application sets self.shutdown of a Client in use: callbacks are
\* registered and collected between frames, frames of one topic arrive.
DownNext ==
    \/ \E cb \in Callbacks, ta \in RaceTopicArgs :
          LoopBetweenFrames /\ InOrder(cb) /\ CallRegister(cb, ta)
    \/ RegisterSteps
    \/ (rpc = "idle" /\ LoopShutdownCheck)
    \/ (rpc = "idle" /\ PollTimeout)
    \/ (rpc = "idle" /\ Recv)
    \/ (rpc = "idle" /\ PropagateDecode)
    \/ (rpc = "idle" /\ WalkAll)
    \/ (rpc = "idle" /\ PruneAll)
    \/ (rpc = "idle" /\ LookupSpecific)
    \/ (rpc = "idle" /\ WalkSpecific)
    \/ (rpc = "idle" /\ PruneSpecific)
    \/ (rpc = "idle" /\ LenCheck)
    \/ (rpc = "idle" /\ DeleteTopic)
    \/ (rpc = "idle" /\ ForNext)
    \/ \E cb \in Callbacks : LoopBetweenFrames /\ Collect(cb)
    \/ SetShutdown
    \/ \E bytes \in RaceFrames : Inject(bytes)

SpecDown == Init /\ [][DownNext]_vars

\* The thread of run is scheduled, poll returns within its second, and
\* callbacks and the caller of register return.
FairDown == SpecDown /\ WF_vars(LoopSteps) /\ WF_vars(RegisterSteps)

\* publish called by concurrent threads.
NamedEvents == { ev \in Events : "name" \in DOMAIN ev }
ConcPubNext ==
    \/ \E t \in Threads, ev \in NamedEvents, bulk \in BulkArgs : CallPublish(t, ev, bulk)
    \/ \E t \in Threads : PublishSteps(t)

SpecConcPub == Init /\ [][ConcPubNext]_vars

\* client() called by concurrent threads, and the exit hook.
FactorySteps(t) ==
    ClientLookup(t) \/ ClientConstruct(t) \/ ClientStore(t) \/ ClientReturn(t)
PoolNext ==
    \/ \E t \in Threads, key \in Keys : CallClient(t, key)
    \/ \E t \in Threads : FactorySteps(t)
    \/ ShutdownHook

SpecPool == Init /\ [][PoolNext]_vars

\* A Client obtained from client() and in use until shutdown() runs, and
\* after: the Client of the model is the one the factory constructs for
\* client(), its loop runs from its construction on.
Constructed == instances # <<>>
ExitNext ==
    \/ FactoriesIdle /\ CallClient(Publisher, NoKey)
    \/ FactorySteps(Publisher)
    \/ \E cb \in Callbacks, ta \in RaceTopicArgs :
          /\ returned # {} /\ FactoriesIdle /\ ~hooked
          /\ LoopBetweenFrames /\ InOrder(cb)
          /\ CallRegister(cb, ta)
    \/ RegisterSteps
    \/ (Constructed /\ rpc = "idle" /\ LoopShutdownCheck)
    \/ (Constructed /\ rpc = "idle" /\ PollTimeout)
    \/ (Constructed /\ rpc = "idle" /\ Recv)
    \/ (Constructed /\ rpc = "idle" /\ PropagateDecode)
    \/ (Constructed /\ rpc = "idle" /\ WalkAll)
    \/ (Constructed /\ rpc = "idle" /\ PruneAll)
    \/ (Constructed /\ rpc = "idle" /\ LookupSpecific)
    \/ (Constructed /\ rpc = "idle" /\ WalkSpecific)
    \/ (Constructed /\ rpc = "idle" /\ PruneSpecific)
    \/ (Constructed /\ rpc = "idle" /\ LenCheck)
    \/ (Constructed /\ rpc = "idle" /\ DeleteTopic)
    \/ (Constructed /\ rpc = "idle" /\ ForNext)
    \/ \E cb \in Callbacks : LoopBetweenFrames /\ Collect(cb)
    \/ \E bytes \in RaceFrames : Inject(bytes)
    \/ ShutdownHook

SpecExit == Init /\ [][ExitNext]_vars

\* The loop thread is scheduled, poll returns within its second, and
\* callbacks, register and client() return.
FairExit ==
    /\ SpecExit
    /\ WF_vars(Constructed /\ rpc = "idle" /\ LoopSteps)
    /\ WF_vars(RegisterSteps)
    /\ WF_vars(FactorySteps(Publisher))

(***************************************************************************)
(* Properties                                                              *)
(***************************************************************************)
\* The run loop is in Running.
Running == lpc \notin {"stopped", "crashed"}

\* The frame received last can be split and its body decoded.
FrameDecodable ==
    /\ Unpackable(message.bytes)
    /\ BodyDecodable(Split(message.bytes)[1], Split(message.bytes)[2])

\* propagate has returned from a frame that it decoded and dispatched.
Dispatched == lpc = "returned" /\ payload.kind # "none"

\* The references called for the frame received last.
Called(list) == { calls[i].ref : i \in { j \in 1..Len(calls) : calls[j].list = list } }

\* The list a registration was filed in, as the registry holds it now.
ListOf(r) ==
    IF r.all THEN callback_all
    ELSE IF r.key \in DOMAIN callback_specific
         THEN lists[callback_specific[r.key]]
         ELSE <<>>
InList(x, l) == \E i \in 1..Len(l) : l[i] = x

\* The registration r is one for the frame being handled.
ForThisFrame(r) == r.all \/ r.key = topic
WasCalled(r) == r.ref \in Called(IF r.all THEN "all" ELSE "specific")

\* publish has returned to the caller on thread t.
PublishReturned(t) ==
    spc[t] = "idle" /\ scall[t].op = "publish" /\ scall[t].result = "returned"

\* The frames publish call n handed to the transport, in order.
FramesOf(n) == SelectSeq(sent, LAMBDA f : f.n = n)

\* C1: an undecodable frame affects that message only: the loop stays in
\* Running, and leaves Running only when the shutdown flag is set.
C1_DecodeFailureContained == ~Running => shutdown

\* C2: a callback that raises is contained: the thread is not ended by it
\* (only a frame that cannot be decoded ends it), propagate returns, and
\* every live callback registered for the frame has been invoked.
C2_CallbackFailuresContained ==
    /\ lpc = "crashed" => ~FrameDecodable
    /\ Dispatched =>
          \A r \in registered :
              ForThisFrame(r) /\ r.ref.cb \in alive => WasCalled(r)

\* A callback raised and a later one was invoked all the same.
C2_Witness ==
    /\ Dispatched
    /\ \E i, j \in 1..Len(calls) : i < j /\ calls[i].raised /\ ~calls[j].raised

\* C3: a registration that has returned, its callback alive, is reachable
\* from the registry (callback_all, or callback_specific[topic]).
C3_RegistrationReachable ==
    \A r \in registered : r.ref.cb \in alive => InList(r.ref, ListOf(r))

\* C4: with calls one after another, the k-th call (from 0) returns
\* k mod (pub_id_max + 1), and no id lies outside pub_id_min..pub_id_max.
C4_SequentialIds ==
    \A k \in 1..Len(issued) :
        /\ issued[k] = (k - 1) % (pub_id_max + 1)
        /\ issued[k] \in pub_id_min..pub_id_max

\* The call after the one that returned pub_id_max returned pub_id_min.
C4_Witness ==
    /\ Len(issued) >= pub_id_max + 2
    /\ issued[pub_id_max + 1] = pub_id_max
    /\ issued[pub_id_max + 2] = pub_id_min

\* Any pub_id_max + 1 ids issued in succession are pairwise distinct.
C5_IdsDistinct ==
    \A i, j \in 1..Len(issued) :
        i < j /\ j - i <= pub_id_max - pub_id_min => issued[i] # issued[j]

\* The lock is held by a thread exactly between its acquire and its release.
C5_LockHeldInside ==
    /\ \A t \in Threads : lock = t <=> spc[t] \in {"draw", "check", "release"}
    /\ lock \in Threads \cup {0}

\* C5: with concurrent callers, any pub_id_max + 1 ids issued in succession
\* are pairwise distinct, the lock is held only by a thread between acquire
\* and release, and every call returns.
C5_ConcurrentIds ==
    /\ [](C5_IdsDistinct /\ C5_LockHeldInside)
    /\ \A t \in Threads : (spc[t] = "acquire") ~> (spc[t] = "idle")

\* A thread waits for the lock another holds, after a wraparound.
C5_Witness ==
    /\ Len(issued) >= pub_id_max + 2
    /\ \E t, u \in Threads : t # u /\ spc[t] = "acquire" /\ lock = u

\* C6: a callback invoked for the normal frame of publish(event) without bulk
\* receives the parsed mapping: the event's fields and the id of that call.
C6_NormalEventDelivered ==
    \A i \in 1..Len(calls) :
        message.kind = "normal" /\ ~message.bulk.some =>
            calls[i].arg =
                [kind |-> "parsed",
                 value |-> [k \in DOMAIN message.ev \cup {"id"} |->
                               IF k = "id" THEN message.id ELSE message.ev[k]]]

\* C7 as stated: the callback of a bulk frame receives the byte string B,
\* without the '<publication id><space>' prefix.
C7_BulkPayloadStripped ==
    \A i \in 1..Len(calls) :
        message.kind = "bulk" =>
            calls[i].arg = [kind |-> "raw", value |-> message.bulk.bytes]

\* C7 as amended: a bulk frame is not parsed (it never ends the thread), and
\* its callback receives '<publication id><space>' followed by B.
C7_BulkPayloadVerbatim ==
    /\ message.kind = "bulk" => lpc # "crashed"
    /\ \A i \in 1..Len(calls) :
          message.kind = "bulk" =>
              calls[i].arg = [kind |-> "raw",
                              value |-> Str(message.id) \o <<" ">>
                                        \o message.bulk.bytes]

\* A callback registered for the bulk topic received a payload with
\* whitespace at both ends.
C7_Witness ==
    /\ message.kind = "bulk"
    /\ message.bulk.bytes = <<" ", "x", " ">>
    /\ \E i \in 1..Len(calls) : calls[i].list = "specific"

\* C8: a callback registered with a topic is invoked only for a frame whose
\* topic token equals the stripped topic argument, one registered with None
\* only from the all-topics list, and for every dispatched frame.
C8_TopicFiltering ==
    /\ \A i \in 1..Len(calls) :
          \E r \in registered :
              /\ r.ref = calls[i].ref
              /\ IF calls[i].list = "specific"
                 THEN r.arg.some /\ Strip(r.arg.str) = Split(message.bytes)[1]
                 ELSE ~r.arg.some
    /\ Dispatched =>
          \A r \in registered : ~r.arg.some /\ r.ref.cb \in alive => WasCalled(r)

\* A callback registered with a padded topic was invoked, and one registered
\* for another topic was not.
C8_Witness ==
    /\ Dispatched
    /\ \E r \in registered :
          r.arg = SomeTopic(<<" ", "t", "\t">>) /\ WasCalled(r)
    /\ \E r \in registered : r.arg = SomeTopic(<<"T">>) /\ r.ref.cb \in alive

\* C9: a callback collected before the frame arrived is not invoked, does not
\* end the thread, is gone from its list when propagate returns, and the live
\* callbacks of the frame are invoked.
C9_DeadCallbacksPruned ==
    /\ lpc = "crashed" => ~FrameDecodable
    /\ \A r \in registered :
          r.ref.cb \notin alive_at_recv => r.ref \notin Called("all") \cup Called("specific")
    /\ Dispatched =>
          \A r \in registered :
              /\ ForThisFrame(r) /\ r.ref.cb \notin alive_at_recv
                    => ~InList(r.ref, ListOf(r))
              /\ ForThisFrame(r) /\ r.ref.cb \in alive => WasCalled(r)

\* A dead registration and a live one of the same list, the live one invoked.
C9_Witness ==
    /\ Dispatched
    /\ \E r, q \in registered :
          /\ r.all = q.all /\ r.key = q.key /\ ForThisFrame(r)
          /\ r.ref.cb \notin alive_at_recv
          /\ WasCalled(q)

\* C10: publish without bulk hands one frame to the transport, the normal
\* frame; with bulk two, the normal frame and then the bulk frame, whose topic
\* is '<event name>;bulk' and whose body starts with the id of the normal
\* frame's event.
C10_FrameSequence ==
    \A t \in Threads :
        PublishReturned(t) =>
            LET fs == FramesOf(scall[t].n)
                name == scall[t].orig["name"]
                bulk == scall[t].bulk
            IN  /\ Len(fs) = IF bulk.some THEN 2 ELSE 1
                /\ \E id \in pub_id_min..pub_id_max :
                      /\ Split(fs[1].bytes)[1] = name
                      /\ Split(fs[1].bytes)[2] =
                            JsonDumps([k \in DOMAIN scall[t].orig \cup {"id"}
                                             \cup (IF bulk.some THEN {"bulk"} ELSE {}) |->
                                          CASE k = "id" -> id
                                            [] k = "bulk" /\ bulk.some -> TRUE
                                            [] OTHER -> scall[t].orig[k]])
                      /\ bulk.some =>
                            /\ Split(fs[2].bytes)[1]
                                  = name \o <<";", "b", "u", "l", "k">>
                            /\ Split(Split(fs[2].bytes)[2])[1] = Str(id)

\* A publish with bulk has returned, its id not the first.
C10_Witness ==
    \E t \in Threads :
        PublishReturned(t) /\ scall[t].bulk.some /\ sid[t] > pub_id_min

\* The calls made for the frame received last to the callback of registration r.
CallsOf(r) ==
    { i \in 1..Len(calls) :
        calls[i].ref = r.ref /\ calls[i].list = (IF r.all THEN "all" ELSE "specific") }

Exited == ~Running

\* At most one frame is received once the flag is set.
C12_OneFurtherMessage == recv_after_flag <= 1

\* Once the thread has ended nothing is received or dispatched.
C12_NoRestart ==
    [][Exited => /\ lpc' = lpc
                 /\ Len(wire') >= Len(wire)
                 /\ UNCHANGED <<message, calls, recv_after_flag>>]_vars

C13_OneInstancePerEndpoint ==
    /\ \A r1, r2 \in returned : r1.key = r2.key => r1.instance = r2.instance
    /\ \A i, j \in 1..Len(instances) : instances[i].key = instances[j].key => i = j

\* C14: register with an object that is not callable raises TypeError at
\* once, whatever the topic argument, and leaves callback_all,
\* callback_specific and the transport's subscriptions as they were.
C14_NonCallableRejected ==
    /\ [](rarg.cb \in Objects \ Callbacks =>
             rpc = "idle" /\ rarg.result = "TypeError")
    /\ [][nreg' # nreg /\ rarg'.cb \in Objects \ Callbacks =>
             UNCHANGED <<callback_all, callback_specific, lists, subscriptions>>]_vars

\* An object that is not callable was handed over with a topic, a callback
\* being registered already.
C14_Witness ==
    /\ rarg.cb \in Objects \ Callbacks
    /\ rarg.topic.some
    /\ rarg.result = "TypeError"
    /\ registered # {}

\* C15: publish of a mapping without a name raises KeyError to the caller,
\* sends nothing and leaves the mapping as it was; the id it drew is used up,
\* and the publish after it carries the next id.
C15_PublishWithoutName ==
    \A t \in Threads :
        /\ scall[t].op = "publish" /\ scall[t].result = "KeyError" =>
              /\ spc[t] = "idle"
              /\ scall[t].ev = scall[t].orig
              /\ FramesOf(scall[t].n) = <<>>
              /\ Len(issued) = scall[t].n /\ issued[scall[t].n] = sid[t]
        /\ PublishReturned(t) /\ scall[t].prev = "KeyError" =>
              /\ scall[t].ev["id"] = (issued[scall[t].n - 1] + 1) % (pub_id_max + 1)
              /\ FramesOf(scall[t].n)[1].id = scall[t].ev["id"]

\* A publish has returned after one that raised KeyError.
C15_Witness ==
    \E t \in Threads : PublishReturned(t) /\ scall[t].prev = "KeyError"

\* No call of register is in progress and propagate is not running.
Quiescent == rpc = "idle" /\ (LoopBetweenFrames \/ lpc = "returned")

\* C16: with register and propagate run one at a time, after each of them
\* no key of callback_specific has an empty list, every entry of a key's list
\* is a registration made for that key, and a registration for a topic whose
\* callback is alive has its key and its entry.
C16_NoEmptyTopicList ==
    Quiescent =>
        /\ \A k \in DOMAIN callback_specific :
              /\ lists[callback_specific[k]] # <<>>
              /\ \A i \in 1..Len(lists[callback_specific[k]]) :
                    \E r \in registered :
                        /\ r.ref = lists[callback_specific[k]][i]
                        /\ ~r.all /\ r.key = k
        /\ \A r \in registered :
              ~r.all /\ r.ref.cb \in alive =>
                  r.key \in DOMAIN callback_specific /\ InList(r.ref, ListOf(r))

\* propagate has pruned the last callback of a topic and deleted its key,
\* another topic's key staying.
C16_Witness ==
    /\ rpc = "idle" /\ lpc = "returned"
    /\ DOMAIN callback_specific # {}
    /\ \E r \in registered : ~r.all /\ r.key \notin DOMAIN callback_specific

\* C17: whenever a thread can draw (the lock is free, or it holds the lock
\* and has not drawn yet) the counter yields a value of pub_id_min..pub_id_max,
\* so the id tested at line 235 is never greater than pub_id_max.
C17_CounterInRange ==
    /\ lock = 0 => counter \in pub_id_min..pub_id_max
    /\ \A t \in Threads :
          /\ spc[t] = "draw" => counter \in pub_id_min..pub_id_max
          /\ spc[t] = "check" => sid[t] <= pub_id_max

\* A thread has drawn pub_id_max and holds the lock, another waits for it.
C17_Witness ==
    \E t, u \in Threads :
        /\ t # u
        /\ spc[t] = "check" /\ sid[t] = pub_id_max /\ counter = pub_id_max + 1
        /\ spc[u] = "acquire"

\* C18: once shutdown() has run the pool is empty, and the loop of a Client
\* that was in the pool reaches Stopped.
C18_TornDownAtExit ==
    /\ [](hooked => DOMAIN client_connections = {})
    /\ (hooked /\ Constructed) ~> (lpc = "stopped")

\* Every registration that returned has its prefix subscribed: the empty
\* prefix for topic None, the stripped topic otherwise.
C19_RegisteredSubscribed ==
    \A r \in registered :
        (IF r.arg.some THEN Strip(r.arg.str) ELSE <<>>) \in subscriptions

\* C19: the set of subscribed prefixes changes only when register
\* subscribes, and then by gaining register's prefix; propagate leaves it
\* alone, also when it deletes a topic's key, so every registration's prefix
\* stays subscribed.
C19_SubscriptionsOnlyGrow ==
    /\ []C19_RegisteredSubscribed
    /\ [][subscriptions' # subscriptions =>
             /\ rpc = "subscribe"
             /\ subscriptions' = subscriptions \cup {rarg.key}
             /\ UNCHANGED lpc]_vars

\* propagate has deleted a topic's key, and the topic is still subscribed.
C19_Witness ==
    /\ lpc = "returned"
    /\ \E r \in registered :
          /\ r.arg.some
          /\ Strip(r.arg.str) \notin DOMAIN callback_specific
          /\ Strip(r.arg.str) \in subscriptions

\* C20: before the first wraparound, the normal frames are handed to the
\* transport in the order of their ids.
C20_WireOrder ==
    Len(issued) <= pub_id_max + 1 =>
        \A i, j \in 1..Len(sent) :
            i < j /\ sent[i].kind = "normal" /\ sent[j].kind = "normal" =>
                sent[i].id < sent[j].id

====
